---- MODULE Spec2Model ----
(***************************************************************************)
(* A model of the e-commerce chatbot server: the retry wrapper             *)
(* (retryWithBackoff), the item_lookup tool and the agent loop of          *)
(* callAgent in src/server/agent.ts.                                       *)
(***************************************************************************)
EXTENDS Integers, Sequences, FiniteSets, TLC

(***************************************************************************)
(* Bounds of the model.                                                    *)
(***************************************************************************)
\* largest maxRetries argument the retry harness passes to retryWithBackoff
MaxRetriesBound == 6
\* largest number of documents of the items collection
MaxCollection == 2
\* largest whole number the tool harness passes as n (beside the default)
MaxN == 2
\* most store calls that fail in one behaviour
MaxStoreFaults == 1
\* most invocations of the language model that fail in one behaviour
MaxModelFaults == 3
MaxClock == 1
MaxRequests == 2

(***************************************************************************)
(* Program constants.                                                      *)
(***************************************************************************)
DefaultMaxRetries == 3
BaseDelayMs == 1000
MaxDelayMs == 30000
RateLimitStatus == 429
AuthStatus == 401
ServerErrorStatus == 500
DefaultN == 10
SampleLimit == 3
RecursionLimit == 15

VARIABLES
    retry,      \* the activation of retryWithBackoff: its arguments, loop counter, position and trace
    tool,       \* the traces of the tool invocations of the last tools step
    call,       \* the activation of callAgent: its thread, graph state, position and step count
    store,      \* the external store: the items collection and its vector index
    llm,        \* the language model: the tool calls it asks for when it asks for any
    faults,     \* how many store calls and how many model invocations have failed so far
    checkpoints, \* the checkpointer: the persisted messages of each thread
    http,       \* the HTTP server: its clock, the requests received and their responses
    suspended   \* the activations of callAgent that wait at an await while another one runs

vars == <<retry, tool, call, store, llm, faults, checkpoints, http, suspended>>

\* no activation of retryWithBackoff
RetryIdle == [pc |-> "idle"]
\* no tools step yet
ToolIdle == <<>>
\* no activation of callAgent
CallIdle == [pc |-> "idle"]
\* the thread identifiers
Threads == {"t1", "t2"}
\* the store and the model left out of the retry harness
NoStore == [items |-> <<>>]
NoModel == [tool_calls |-> <<>>]
NoFaults == [store |-> 0, model |-> 0]
\* the server before any request
HttpIdle == [clock |-> 0, pending |-> <<>>, log |-> <<>>, products |-> <<>>]

(***************************************************************************)
(* Arithmetic helpers.                                                     *)
(***************************************************************************)
RECURSIVE Pow2(_)
Pow2(k) == IF k <= 0 THEN 1 ELSE 2 * Pow2(k - 1)

Min(a, b) == IF a <= b THEN a ELSE b

RECURSIVE SumSeq(_)
SumSeq(s) == IF s = <<>> THEN 0 ELSE Head(s) + SumSeq(Tail(s))

(***************************************************************************)
(* Errors.  An error is a record; only errors raised by an HTTP client     *)
(* carry a status field.  The field at is the invocation of the operation  *)
(* that raised it, which tells two errors of the same kind apart.          *)
(***************************************************************************)
HttpError(status, at) == [name |-> "HttpError", status |-> status, at |-> at]
PlainError(message, at) == [name |-> "Error", message |-> message, at |-> at]

\* error.status === s
StatusIs(error, s) == "status" \in DOMAIN error /\ error.status = s

\* new Error("Max retries exceeded")
MaxRetriesError == [name |-> "Error", message |-> "Max retries exceeded"]

(***************************************************************************)
(* The operation handed to retryWithBackoff is the environment: each       *)
(* invocation either resolves with a value or rejects with an error.       *)
(***************************************************************************)
Values == {"v1", "v2"}

Resolved(v) == [ok |-> TRUE, value |-> v]
Rejected(e) == [ok |-> FALSE, error |-> e]

FnOutcomes(at) ==
    {Resolved(v) : v \in Values}
        \cup {Rejected(HttpError(s, at)) : s \in {RateLimitStatus, AuthStatus, ServerErrorStatus}}
        \cup {Rejected(PlainError("fetch failed", at))}

(***************************************************************************)
(* retryWithBackoff                                                        *)
(***************************************************************************)
\* Math.min(1000 * Math.pow(2, attempt), 30000)
BackoffNoCap(attempt) == BaseDelayMs * Pow2(attempt)
Backoff(attempt) == Min(BaseDelayMs * Pow2(attempt), MaxDelayMs)

\* error.status === 429 && attempt < maxRetries
ShouldRetryAnyError(error, attempt, maxRetries) == attempt < maxRetries
ShouldRetryLastAttempt(error, attempt, maxRetries) ==
    StatusIs(error, RateLimitStatus) /\ attempt <= maxRetries
ShouldRetry(error, attempt, maxRetries) ==
    StatusIs(error, RateLimitStatus) /\ attempt < maxRetries

\* the activation at entry: let attempt = 1
RetryStart(maxRetries) ==
    [maxRetries |-> maxRetries, attempt |-> 1, pc |-> "loop",
     outcomes |-> <<>>, waits |-> <<>>]

\* one pass of the loop body: await fn(), then return, sleep or throw
RetryOnOutcomeFirstValue(r, outcome) ==
    LET r1 == [r EXCEPT !.outcomes = Append(@, outcome)] IN
    IF outcome.ok
    THEN [r1 EXCEPT !.pc = "returned"] @@ [value |-> "v1"]
    ELSE IF ShouldRetry(outcome.error, r.attempt, r.maxRetries)
         THEN [r1 EXCEPT !.pc = "sleep", !.waits = Append(@, Backoff(r.attempt))]
         ELSE [r1 EXCEPT !.pc = "thrown"] @@ [error |-> outcome.error]
RetryOnOutcome(r, outcome) ==
    LET r1 == [r EXCEPT !.outcomes = Append(@, outcome)] IN
    IF outcome.ok
    THEN [r1 EXCEPT !.pc = "returned"] @@ [value |-> outcome.value]
    ELSE IF ShouldRetry(outcome.error, r.attempt, r.maxRetries)
         THEN [r1 EXCEPT !.pc = "sleep", !.waits = Append(@, Backoff(r.attempt))]
         ELSE [r1 EXCEPT !.pc = "thrown"] @@ [error |-> outcome.error]

\* the timer of the backoff fires: continue, attempt++
RetryOnTimer(r) == [r EXCEPT !.pc = "loop", !.attempt = @ + 1]

\* the loop condition attempt <= maxRetries is false: throw new Error(...)
RetryOnLoopExit(r) == [r EXCEPT !.pc = "thrown"] @@ [error |-> MaxRetriesError]

RetryInvoke ==
    /\ retry.pc = "loop"
    /\ retry.attempt <= retry.maxRetries
    /\ \E outcome \in FnOutcomes(Len(retry.outcomes) + 1) :
           retry' = RetryOnOutcome(retry, outcome)
    /\ UNCHANGED <<tool, call, store, llm, faults, checkpoints, http, suspended>>

RetryWake ==
    /\ retry.pc = "sleep"
    /\ retry' = RetryOnTimer(retry)
    /\ UNCHANGED <<tool, call, store, llm, faults, checkpoints, http, suspended>>

RetryExhausted ==
    /\ retry.pc = "loop"
    /\ retry.attempt > retry.maxRetries
    /\ retry' = RetryOnLoopExit(retry)
    /\ UNCHANGED <<tool, call, store, llm, faults, checkpoints, http, suspended>>

RetryInit ==
    /\ \E m \in 0..MaxRetriesBound : retry = RetryStart(m)
    /\ tool = ToolIdle
    /\ call = CallIdle
    /\ store = NoStore
    /\ llm = NoModel
    /\ faults = NoFaults
    /\ checkpoints = [t \in Threads |-> <<>>]
    /\ http = HttpIdle
    /\ suspended = {}

RetryNext == RetryInvoke \/ RetryWake \/ RetryExhausted

SpecRetry == RetryInit /\ [][RetryNext]_vars

(***************************************************************************)
(* Properties of retryWithBackoff, checked under SpecRetry.                *)
(***************************************************************************)
RetryTerminated == retry.pc \in {"returned", "thrown"}

\* the k-th invocation of the operation rejected with a rate-limit error
RateLimitedAt(k) ==
    /\ k \in 1..Len(retry.outcomes)
    /\ ~retry.outcomes[k].ok
    /\ StatusIs(retry.outcomes[k].error, RateLimitStatus)

\* the k-th invocation of the operation rejected with another error
OtherFailureAt(k) ==
    /\ k \in 1..Len(retry.outcomes)
    /\ ~retry.outcomes[k].ok
    /\ ~StatusIs(retry.outcomes[k].error, RateLimitStatus)

\* the operation was rate-limited on every attempt of a finished call with maxRetries = 3
AlwaysRateLimitedCall ==
    /\ retry.maxRetries = 3
    /\ RetryTerminated
    /\ \A k \in 1..Len(retry.outcomes) : RateLimitedAt(k)

\* C1 as the spec states it: with maxRetries = 3 and an operation that is
\* rate-limited on every attempt, the call fails with "Max retries exceeded"
\* after exactly 3 invocations.
C1_MaxRetriesExceededRaised ==
    AlwaysRateLimitedCall =>
        /\ retry.pc = "thrown"
        /\ retry.error = MaxRetriesError
        /\ Len(retry.outcomes) = 3

\* C1 amended: with maxRetries = 3 and an operation that is rate-limited on
\* every attempt, the call fails after exactly 3 invocations, and the failure
\* is the rate-limit error (status 429) of the third invocation, not
\* "Max retries exceeded".
C1_LastRateLimitErrorRaised ==
    AlwaysRateLimitedCall =>
        /\ retry.pc = "thrown"
        /\ Len(retry.outcomes) = 3
        /\ retry.error = retry.outcomes[3].error
        /\ StatusIs(retry.error, RateLimitStatus)
        /\ retry.error # MaxRetriesError

C1_Witness ==
    /\ AlwaysRateLimitedCall
    /\ Len(retry.outcomes) = 3
    /\ retry.pc = "thrown"

\* the operation was rate-limited exactly twice and then succeeded, maxRetries = 3
TwoRateLimitsThenSuccess ==
    /\ retry.maxRetries = 3
    /\ Len(retry.outcomes) = 3
    /\ RateLimitedAt(1)
    /\ RateLimitedAt(2)
    /\ retry.outcomes[3].ok

\* C2: with maxRetries = 3 and an operation that is rate-limited exactly twice
\* and then succeeds, the call succeeds, returns the value of the successful
\* invocation unchanged, and the backoff waits sum to 1000*2^1 + 1000*2^2 ms.
C2_SucceedsAfterTwoRateLimits ==
    TwoRateLimitsThenSuccess =>
        /\ retry.pc = "returned"
        /\ retry.value = retry.outcomes[3].value
        /\ retry.waits = <<1000 * 2, 1000 * 4>>
        /\ SumSeq(retry.waits) = 6000

C2_Witness ==
    /\ TwoRateLimitsThenSuccess
    /\ retry.pc = "returned"
    /\ retry.value = "v2"

\* C3: an invocation that fails with an error whose status is not 429 is the
\* last one: the call is over, it raised that same error, and it waited only
\* after the rate-limited invocations before it (no additional wait).
C3_OtherFailuresPropagateAtOnce ==
    \A k \in 1..Len(retry.outcomes) :
        OtherFailureAt(k) =>
            /\ retry.maxRetries >= 1
            /\ k = Len(retry.outcomes)
            /\ retry.pc = "thrown"
            /\ retry.error = retry.outcomes[k].error
            /\ Len(retry.waits) = k - 1

C3_Witness ==
    /\ retry.maxRetries >= 3
    /\ Len(retry.outcomes) = 2
    /\ RateLimitedAt(1)
    /\ OtherFailureAt(2)
    /\ StatusIs(retry.outcomes[2].error, AuthStatus)
    /\ retry.pc = "thrown"

\* C4: the k-th wait follows the k-th attempt, is exactly
\* min(1000 * 2^k, 30000) ms, never exceeds 30000 ms and is not shorter than
\* the wait before it; there is one wait for each rate-limited attempt
\* k < maxRetries and no other.
C4_BackoffDelays ==
    /\ \A k \in 1..Len(retry.waits) :
           /\ retry.waits[k] = (IF 1000 * (2 ^ k) < 30000 THEN 1000 * (2 ^ k) ELSE 30000)
           /\ retry.waits[k] <= 30000
           /\ k > 1 => retry.waits[k - 1] <= retry.waits[k]
           /\ RateLimitedAt(k)
           /\ k < retry.maxRetries
    /\ \A k \in 1..Len(retry.outcomes) :
           (RateLimitedAt(k) /\ k < retry.maxRetries) => k <= Len(retry.waits)

C4_Witness ==
    /\ Len(retry.waits) >= 5
    /\ retry.waits[4] = 16000
    /\ retry.waits[5] = 30000

(***************************************************************************)
(* JavaScript values of the arguments of a tool call.  A number is the     *)
(* fraction num/den with den 1 (a whole number) or 2 (a half).             *)
(***************************************************************************)
Undefined == [type |-> "undefined"]
StringValue(chars) == [type |-> "string", chars |-> chars]
NumberValue(num, den) == [type |-> "number", num |-> num, den |-> den]

IsWhole(x) == x.num % x.den = 0
\* the number with its fraction dropped (towards zero)
Truncate(x) == IF x.num >= 0 THEN x.num \div x.den ELSE -((-x.num) \div x.den)
\* k <= x, for a whole k
AtMost(k, x) == k * x.den <= x.num
\* x is a positive integer
IsPositiveInteger(x) == IsWhole(x) /\ x.num > 0

(***************************************************************************)
(* The tool schema (zod): query a string, n an optional number, default 10 *)
(***************************************************************************)
SchemaParse(args) ==
    IF args.query.type # "string" THEN [success |-> FALSE]
    ELSE IF args.n.type = "undefined"
         THEN [success |-> TRUE, query |-> args.query.chars, n |-> NumberValue(DefaultN, 1)]
    ELSE IF args.n.type = "number"
         THEN [success |-> TRUE, query |-> args.query.chars, n |-> args.n]
    ELSE [success |-> FALSE]

(***************************************************************************)
(* Text.  A string is a sequence of characters.                            *)
(***************************************************************************)
Lower(c) ==
    CASE c = "S" -> "s"
      [] c = "O" -> "o"
      [] c = "C" -> "c"
      [] OTHER -> c

\* the pattern of $regex compiles: over the characters of the model only an
\* opening parenthesis, which nothing closes, makes it invalid
RegexValid(pattern) == \A i \in 1..Len(pattern) : pattern[i] # "("

\* { $regex: pattern, $options: "i" } on one string: the pattern matches
\* somewhere in the text; "." matches any character, a letter matches itself
\* in either case
RegexMatchAt(pattern, text, i) ==
    /\ i + Len(pattern) - 1 <= Len(text)
    /\ \A j \in 1..Len(pattern) :
           pattern[j] = "." \/ Lower(pattern[j]) = Lower(text[i + j - 1])

RegexFind(pattern, text) ==
    \E i \in 1..(Len(text) + 1) : RegexMatchAt(pattern, text, i)

\* the $or filter of the text search on one document; a $regex on the array
\* field categories matches when one of its elements matches
TextFilter(item, query) ==
    \/ RegexFind(query, item.item_name)
    \/ RegexFind(query, item.item_description)
    \/ \E c \in 1..Len(item.categories) : RegexFind(query, item.categories[c])
    \/ RegexFind(query, item.embedding_text)

(***************************************************************************)
(* The items collection and the store's answers.                           *)
(***************************************************************************)
ItemA ==
    [item_name |-> <<"S", "o">>, item_description |-> <<"d">>,
     categories |-> << <<"c">> >>, embedding_text |-> <<"e">>]
ItemB ==
    [item_name |-> <<"s", "(">>, item_description |-> <<>>,
     categories |-> <<>>, embedding_text |-> <<"s", "o">>]
ItemC ==
    [item_name |-> <<"x">>, item_description |-> <<"s", "O">>,
     categories |-> << <<"x">>, <<"C">> >>, embedding_text |-> <<>>]
Catalogue == {ItemA, ItemB, ItemC}

\* the sequences of at most k distinct elements of S
DistinctSeqs(S, k) ==
    UNION {{q \in [1..m -> S] : \A i, j \in 1..m : i # j => q[i] # q[j]} : m \in 0..k}

Collections == DistinctSeqs(Catalogue, MaxCollection)

Queries ==
    {<<>>, <<"s", "o">>, <<"c">>, <<"d">>, <<"e">>, <<"(">>, <<"s", "(">>, <<".">>, <<"z">>}

Take(docs, k) == SubSeq(docs, 1, Min(k, Len(docs)))

\* cursor.limit(k): 0 is no limit, a negative k is a single batch of -k
Limit(docs, k) ==
    IF k = 0 THEN docs
    ELSE IF k < 0 THEN Take(docs, -k)
    ELSE Take(docs, k)

Returned(v) == [ok |-> TRUE, value |-> v]
Thrown(message) == [ok |-> FALSE, error |-> [name |-> "MongoError", message |-> message]]

ElemsOf(q) == {q[i] : i \in 1..Len(q)}

\* The store as one call of the agent finds it: the documents of the items
\* collection, what the vector index ranks as similar to each query that is
\* asked, and whether the service rejects a limit it cannot honour (strict)
\* or returns what it can.
\* The calls of the tool that the store may fail are faulty.
Stores(collections, queries, faulty) ==
    UNION {[items : {c},
            matches : [queries -> DistinctSeqs(ElemsOf(c), Len(c))],
            strict : BOOLEAN,
            faulty : {faulty}] : c \in collections}

\* the external calls of the tool
FailPoints == {"count", "sample", "vector", "text"}

\* collection.countDocuments()
CountDocuments(st, fail) ==
    IF fail = "count" THEN Thrown("count failed") ELSE Returned(Len(st.items))

\* collection.find({}).limit(3).toArray()
SampleDocs(st, fail) ==
    IF fail = "sample" THEN Thrown("sample failed")
    ELSE Returned(Limit(st.items, SampleLimit))

\* vectorStore.similaritySearchWithScore(query, n): the n best matches of the
\* index, each with its score (here its rank).  A limit that is no positive
\* integer is rejected by a strict service; otherwise no more than n
\* documents come back.
VectorSearch(st, query, n, fail) ==
    IF fail = "vector" THEN Thrown("vector search failed")
    ELSE IF ~IsPositiveInteger(n) /\ st.strict THEN Thrown("limit must be a positive integer")
    ELSE LET best == Take(st.matches[query], IF n.num > 0 THEN Truncate(n) ELSE 0)
         IN  Returned([i \in 1..Len(best) |-> <<best[i], i>>])

\* collection.find({ $or: [...] }).limit(n).toArray()
TextSearch(st, query, n, fail) ==
    IF fail = "text" THEN Thrown("text search failed")
    ELSE IF ~RegexValid(query) THEN Thrown("Regular expression is invalid")
    ELSE IF ~IsWhole(n) /\ st.strict THEN Thrown("limit must be an integer")
    ELSE Returned(Limit(SelectSeq(st.items, LAMBDA item : TextFilter(item, query)),
                        Truncate(n)))

(***************************************************************************)
(* The payloads of the tool: the objects handed to JSON.stringify.         *)
(***************************************************************************)
EmptyPayload ==
    [error |-> "No items found in inventory",
     message |-> "The inventory database appears to be empty",
     count |-> 0]

TextPayload(results, query) ==
    [results |-> results, searchType |-> "text", query |-> query, count |-> Len(results)]

VectorPayloadTaggedText(results, query) ==
    [results |-> results, searchType |-> "text", query |-> query, count |-> Len(results)]
VectorPayload(results, query) ==
    [results |-> results, searchType |-> "vector", query |-> query, count |-> Len(results)]

ErrorPayload(error, query) ==
    [error |-> "Failed to search inventory", details |-> error.message, query |-> query]

(***************************************************************************)
(* The body of the item_lookup tool.                                       *)
(***************************************************************************)
\* how a block ends: with the value it returns or the error it throws, after
\* the external calls it made (each with its result)
Return(value, calls) == [ok |-> TRUE, value |-> value, calls |-> calls]
Throw(error, calls) == [ok |-> FALSE, error |-> error, calls |-> calls]
Made(name, result) == [name |-> name, result |-> result]

\* the try block
TrySearchWhenEmpty(st, query, n, fail) ==
    LET total == Made("count", CountDocuments(st, fail))
        vector == Made("vector", VectorSearch(st, query, n, fail))
    IN
    IF ~total.result.ok THEN Throw(total.result.error, <<total>>)
    ELSE IF ~vector.result.ok THEN Throw(vector.result.error, <<total, vector>>)
    ELSE IF total.result.value = 0 THEN Return(EmptyPayload, <<total, vector>>)
    ELSE Return(VectorPayload(vector.result.value, query), <<total, vector>>)
TryItemLookup(st, query, n, fail) ==
    LET total == Made("count", CountDocuments(st, fail))
        sample == Made("sample", SampleDocs(st, fail))
        vector == Made("vector", VectorSearch(st, query, n, fail))
        text == Made("text", TextSearch(st, query, n, fail))
    IN
    IF ~total.result.ok THEN Throw(total.result.error, <<total>>)
    ELSE IF total.result.value = 0 THEN Return(EmptyPayload, <<total>>)
    ELSE IF ~sample.result.ok THEN Throw(sample.result.error, <<total, sample>>)
    ELSE IF ~vector.result.ok THEN Throw(vector.result.error, <<total, sample, vector>>)
    ELSE IF Len(vector.result.value) = 0
         THEN IF ~text.result.ok
              THEN Throw(text.result.error, <<total, sample, vector, text>>)
              ELSE Return(TextPayload(text.result.value, query),
                          <<total, sample, vector, text>>)
    ELSE Return(VectorPayload(vector.result.value, query), <<total, sample, vector>>)

\* the try block with its catch: an error becomes a payload
ItemLookupNoCatch(st, query, n, fail) == TryItemLookup(st, query, n, fail)
ItemLookup(st, query, n, fail) ==
    \* body: how the try block ended
    CHOOSE caught \in
        {IF body.ok THEN body
         ELSE Return(ErrorPayload(body.error, query), body.calls) :
            body \in {TryItemLookup(st, query, n, fail)}} : TRUE

\* the tool as the tool node calls it: the arguments go through the schema,
\* and the body runs only on arguments the schema accepts.  The record is
\* the trace of the invocation: its input, the calls made, how it ended.
CallTool(st, args, fail) ==
    LET parsed == SchemaParse(args) IN
    IF ~parsed.success
    THEN [status |-> "rejected", args |-> args, fail |-> fail, calls |-> <<>>]
    ELSE \* out: how the body ended
         CHOOSE trace \in
             {[status |-> IF out.ok THEN "returned" ELSE "raised",
               args |-> args, fail |-> fail, query |-> parsed.query, n |-> parsed.n,
               result |-> IF out.ok THEN out.value ELSE out.error,
               calls |-> out.calls] :
                 out \in {ItemLookup(st, parsed.query, parsed.n, fail)}} : TRUE

(***************************************************************************)
(* Messages and the graph state.                                           *)
(***************************************************************************)
HumanMessage(content) == [role |-> "user", content |-> content]
AIMessage(content, tool_calls) ==
    [role |-> "assistant", content |-> content, tool_calls |-> tool_calls]
ToolMessage(content, index) == [role |-> "tool", content |-> content, tool_call |-> index]

Last(q) == q[Len(q)]

\* the reducer of the messages channel: (x, y) => x.concat(y)
ReducerReplace(x, y) == y
ReducerPrepend(x, y) == y \o x
Reducer(x, y) == x \o y

\* shouldContinue: lastMessage.tool_calls?.length
ShouldContinueAlwaysEnd(messages) == "__end__"
ShouldContinue(messages) ==
    LET lastMessage == Last(messages) IN
    IF "tool_calls" \in DOMAIN lastMessage /\ Len(lastMessage.tool_calls) > 0
    THEN "tools" ELSE "__end__"

(***************************************************************************)
(* The tools node: it runs the tool once for each tool call of the last    *)
(* message and appends one tool message for each, in their order.  An      *)
(* error of the tool (arguments the schema rejects, an exception) becomes   *)
(* the content of its tool message.                                        *)
(***************************************************************************)
ToolContent(trace) ==
    CASE trace.status = "returned" -> trace.result
      [] trace.status = "rejected" -> [toolError |-> "Received tool input did not match expected schema"]
      [] trace.status = "raised" -> [toolError |-> trace.result.message]

ToolNodeFirstCall(traces) ==
    [i \in 1..Min(1, Len(traces)) |-> ToolMessage(ToolContent(traces[i]), i)]
ToolNode(traces) == [i \in 1..Len(traces) |-> ToolMessage(ToolContent(traces[i]), i)]

CountFaults(fails) == Cardinality({i \in DOMAIN fails : fails[i] # "none"})

\* one superstep of the graph ends: the node's messages go through the
\* reducer, the checkpoint is saved, the step is counted
EndSuperstep(c, newMessages, next) ==
    [c EXCEPT !.messages = Reducer(@, newMessages), !.step = @ + 1, !.pc = next]

\* the graph may run one more superstep: step < recursionLimit
WithinBudgetOffByOne(step) == step <= RecursionLimit
WithinBudget(step) == step < RecursionLimit

ToolStep ==
    /\ call.pc = "tools"
    /\ WithinBudget(call.step)
    /\ LET calls == Last(call.messages).tool_calls IN
       \E fails \in [1..Len(calls) -> {"none"} \cup store.faulty] :
           /\ faults.store + CountFaults(fails) <= MaxStoreFaults
           /\ faults' = [faults EXCEPT !.store = @ + CountFaults(fails)]
           /\ tool' = [i \in 1..Len(calls) |-> CallTool(store, calls[i], fails[i])]
           /\ call' = EndSuperstep(call, ToolNode(tool'), "agent")
           /\ checkpoints' = [checkpoints EXCEPT ![call.thread_id] = call'.messages]
    /\ UNCHANGED <<retry, store, llm, http, suspended>>

(***************************************************************************)
(* The tool harness: callAgent stands at the tools node, the model having  *)
(* requested one tool call with any argument object of the model, against  *)
(* any store of the model.                                                 *)
(***************************************************************************)
RawQueries == {StringValue(q) : q \in Queries} \cup {Undefined}

RawNs ==
    {Undefined, StringValue(<<"2">>)}
        \cup {NumberValue(k, 1) : k \in (-1)..MaxN}
        \cup {NumberValue(k, 2) : k \in {1, 3}}

ToolArgs == [query : RawQueries, n : RawNs]

\* the queries a set of tool calls asks
QueriesOf(argSet) == {a.query.chars : a \in {b \in argSet : b.query.type = "string"}}

UserTexts == {"u1"}

ToolInit ==
    /\ retry = RetryIdle
    /\ tool = ToolIdle
    /\ faults = NoFaults
    /\ \E args \in ToolArgs :
           /\ store \in Stores(Collections, QueriesOf({args}), FailPoints)
           /\ llm = [tool_calls |-> <<args>>]
           /\ call = [pc |-> "tools", thread_id |-> "t1", step |-> 1,
                      messages |-> <<HumanMessage("u1"), AIMessage("", <<args>>)>>]
           /\ checkpoints = [t \in Threads |-> IF t = "t1" THEN call.messages ELSE <<>>]
    /\ http = HttpIdle
    /\ suspended = {}

ToolNext == ToolStep

SpecTool == ToolInit /\ [][ToolNext]_vars

(***************************************************************************)
(* Properties of the item_lookup tool, checked under SpecTool.             *)
(***************************************************************************)
\* the tool message the tools step appended for the i-th tool call
ToolMessageOf(i) == call.messages[Len(call.messages) - Len(tool) + i]

\* the external calls an invocation made, by name
CallsMade(t) == {t.calls[j].name : j \in 1..Len(t.calls)}

\* the result of the call of that name
ResultOf(t, name) == t.calls[CHOOSE j \in 1..Len(t.calls) : t.calls[j].name = name].result

\* the invocation made an external call that failed
SomeCallFailed(t) == \E j \in 1..Len(t.calls) : ~t.calls[j].result.ok

\* the semantic search ran and returned at least k and at most m matches
VectorMatches(t, k, m) ==
    /\ "vector" \in CallsMade(t)
    /\ ResultOf(t, "vector").ok
    /\ Len(ResultOf(t, "vector").value) \in k..m

FailureMessages ==
    {"count failed", "sample failed", "vector search failed", "text search failed",
     "Regular expression is invalid", "limit must be an integer",
     "limit must be a positive integer"}

\* C5: an invocation of the tool on arguments its schema accepts never
\* raises: it returns a payload, which the tools step appends as a tool
\* message before handing over to the generation step; and when one of its
\* external calls failed (count, sample, semantic search, text search) the
\* payload is the error payload with the message of that failure and the
\* original query.
C5_ToolNeverRaises ==
    \A i \in 1..Len(tool) :
        LET t == tool[i] IN
        t.status # "rejected" =>
            /\ t.status = "returned"
            /\ call.pc = "agent"
            /\ ToolMessageOf(i).role = "tool"
            /\ ToolMessageOf(i).content = t.result
            /\ \A j \in 1..Len(t.calls) :
                   ~t.calls[j].result.ok =>
                       /\ j = Len(t.calls)
                       /\ ToolMessageOf(i).content =
                              [error |-> "Failed to search inventory",
                               details |-> t.calls[j].result.error.message,
                               query |-> t.args.query.chars]
                       /\ t.calls[j].result.error.message \in FailureMessages
            /\ (t.fail # "none" /\ t.fail \in CallsMade(t)) => SomeCallFailed(t)

C5_Witness ==
    /\ Len(tool) = 1
    /\ tool[1].status = "returned"
    /\ tool[1].fail = "text"
    /\ CallsMade(tool[1]) = {"count", "sample", "vector", "text"}
    /\ Last(call.messages).content.details = "text search failed"
    /\ Last(call.messages).content.query = <<"s", "o">>
    /\ call.pc = "agent"

\* C6: when the items collection is empty, an invocation of the tool makes
\* neither the semantic search nor the text search, whatever the query and n,
\* and (its document count having answered) returns the payload with count 0
\* and the error tag "No items found in inventory".
C6_EmptyInventory ==
    \A i \in 1..Len(tool) :
        LET t == tool[i] IN
        (store.items = <<>> /\ t.status # "rejected") =>
            /\ CallsMade(t) = {"count"}
            /\ t.status = "returned"
            /\ ResultOf(t, "count").ok =>
                   /\ ToolMessageOf(i).content.count = 0
                   /\ ToolMessageOf(i).content.error = "No items found in inventory"
                   /\ DOMAIN ToolMessageOf(i).content = {"error", "message", "count"}

C6_Witness ==
    /\ Len(tool) = 1
    /\ store.items = <<>>
    /\ tool[1].status = "returned"
    /\ tool[1].n = NumberValue(0, 1)
    /\ ResultOf(tool[1], "count").ok
    /\ Last(call.messages).content.count = 0

\* C7: on a non-empty collection, when the semantic search yields at least
\* one match, the payload is tagged searchType "vector", its count is the
\* number of its results and is at most the requested n, and the text search
\* is not made.
C7_VectorResult ==
    \A i \in 1..Len(tool) :
        LET t == tool[i] IN
        (t.status # "rejected" /\ store.items # <<>>
            /\ VectorMatches(t, 1, Len(store.items))) =>
            /\ t.status = "returned"
            /\ ToolMessageOf(i).content.searchType = "vector"
            /\ ToolMessageOf(i).content.results = ResultOf(t, "vector").value
            /\ ToolMessageOf(i).content.count = Len(ToolMessageOf(i).content.results)
            /\ AtMost(ToolMessageOf(i).content.count, t.n)
            /\ ToolMessageOf(i).content.query = t.args.query.chars
            /\ "text" \notin CallsMade(t)

C7_Witness ==
    /\ Len(tool) = 1
    /\ tool[1].status = "returned"
    /\ VectorMatches(tool[1], 2, 2)
    /\ tool[1].n = NumberValue(2, 1)
    /\ Last(call.messages).content.searchType = "vector"
    /\ Last(call.messages).content.count = 2

\* the query occurs in the text, case ignored
ContainsIgnoreCase(text, q) ==
    \E k \in 0..(Len(text) - Len(q)) :
        \A j \in 1..Len(q) : Lower(text[k + j]) = Lower(q[j])

\* the query occurs in the name, the description, a category or the
\* embedding text of the item, case ignored
SubstringMatch(item, q) ==
    \/ ContainsIgnoreCase(item.item_name, q)
    \/ ContainsIgnoreCase(item.item_description, q)
    \/ \E c \in 1..Len(item.categories) : ContainsIgnoreCase(item.categories[c], q)
    \/ ContainsIgnoreCase(item.embedding_text, q)

\* C8 as the spec states it: on a non-empty collection, when the semantic
\* search yields no match and some item contains the query (case ignored) in
\* its name, description, categories or embedding text, the payload is tagged
\* searchType "text" with a count >= 1 and <= n, for every n the schema
\* accepts (no store call failing of its own).
C8_TextFallback ==
    \A i \in 1..Len(tool) :
        LET t == tool[i] IN
        (t.status # "rejected" /\ t.fail = "none" /\ store.items # <<>>
            /\ VectorMatches(t, 0, 0)
            /\ \E k \in 1..Len(store.items) : SubstringMatch(store.items[k], t.query)) =>
            /\ t.status = "returned"
            /\ "searchType" \in DOMAIN ToolMessageOf(i).content
            /\ ToolMessageOf(i).content.searchType = "text"
            /\ ToolMessageOf(i).content.count >= 1
            /\ AtMost(ToolMessageOf(i).content.count, t.n)

\* C9 as the spec states it: n defaults to 10 when omitted, and a tool call
\* whose n is not a positive integer is rejected before any search is made.
C9_ArgumentsValidated ==
    \A i \in 1..Len(tool) :
        LET t == tool[i] IN
        /\ (t.args.query.type = "string" /\ t.args.n.type = "undefined") =>
               t.n = NumberValue(10, 1)
        /\ (t.args.n.type = "number" /\ ~IsPositiveInteger(t.args.n)) =>
               /\ t.status = "rejected"
               /\ "vector" \notin CallsMade(t)
               /\ "text" \notin CallsMade(t)

(***************************************************************************)
(* callAgent: the graph agent -> (tools -> agent)* -> end, run by          *)
(* app.invoke under a recursion limit, on the messages of the thread.      *)
(***************************************************************************)
Answers == {"a1"}

\* what one invocation of model.invoke does: it resolves with an assistant
\* message, a final answer or the tool calls this model asks for, or it
\* rejects (rate limit, authentication, network)
ModelOutcomes(at) ==
    {Resolved([messages |-> <<AIMessage(a, <<>>)>>]) : a \in Answers}
        \cup {Resolved([messages |-> <<AIMessage("", llm.tool_calls)>>])}
        \cup (IF faults.model < MaxModelFaults
              THEN {Rejected(HttpError(RateLimitStatus, at)),
                    Rejected(HttpError(AuthStatus, at)),
                    Rejected(PlainError("fetch failed", at))}
              ELSE {})

\* the error app.invoke throws when the recursion limit is reached
GraphRecursionError ==
    [name |-> "GraphRecursionError", message |-> "Recursion limit reached"]

\* the catch of callAgent: the error it throws for the error it caught
CallAgentCatchNoRateLimit(error) ==
    IF StatusIs(error, RateLimitStatus) \/ StatusIs(error, AuthStatus)
    THEN [message |-> "Authentication failed. Please check your API configuration."]
    ELSE [message |-> "Agent failed", detail |-> error.message]
CallAgentCatch(error) ==
    IF StatusIs(error, RateLimitStatus)
    THEN [message |-> "Service temporarily unavailable due to rate limits. Please try again in a minute."]
    ELSE IF StatusIs(error, AuthStatus)
    THEN [message |-> "Authentication failed. Please check your API configuration."]
    ELSE [message |-> "Agent failed", detail |-> error.message]

\* callAgent throws
Fail(c, error) == [c EXCEPT !.pc = "failed"] @@ [error |-> CallAgentCatch(error), cause |-> error]

\* the graph ends: callAgent returns the content of the last message
Finish(c) == [c EXCEPT !.pc = "done"] @@ [response |-> Last(c.messages).content]

\* app.invoke({ messages: [new HumanMessage(query)] }, { thread_id }): the
\* input goes through the reducer onto the messages of the thread's checkpoint
StartCall ==
    /\ call.pc = "idle"
    /\ \E t \in Threads, text \in UserTexts :
           /\ call' = [pc |-> "agent", thread_id |-> t, step |-> 0,
                       messages |-> Reducer(checkpoints[t], <<HumanMessage(text)>>)]
           /\ checkpoints' = [checkpoints EXCEPT ![t] = call'.messages]
    /\ retry' = RetryIdle
    /\ tool' = ToolIdle
    /\ UNCHANGED <<store, llm, faults, http, suspended>>

\* the messages the attempts of fn have formatted into their prompt so far,
\* then those of this attempt: state.messages
GivenAfterFirstDropsLast(r, state) ==
    [r EXCEPT !.given =
         Append(@, IF @ = <<>> THEN state.messages
                   ELSE SubSeq(state.messages, 1, Len(state.messages) - 1))]
Given(r, state) ==
    [r EXCEPT !.given = Append(@, state.messages)]

\* the agent node, callModel: one invocation of the model inside
\* retryWithBackoff (maxRetries at its default); the node ends when
\* retryWithBackoff returns, and callAgent fails when it throws
ModelStep ==
    /\ call.pc = "agent"
    /\ WithinBudget(call.step)
    /\ retry.pc \in {"idle", "returned", "loop"}
    /\ LET r == IF retry.pc = "loop" THEN retry
                ELSE RetryStart(DefaultMaxRetries) @@ [given |-> <<>>]
       IN
       /\ r.attempt <= r.maxRetries
       /\ \E outcome \in ModelOutcomes(Len(r.outcomes) + 1) :
              LET r2 == RetryOnOutcome(Given(r, call), outcome)
                  ended == EndSuperstep(call, r2.value.messages, "agent")
                  next == ShouldContinue(ended.messages)
              IN
              /\ retry' = r2
              /\ faults' = [faults EXCEPT !.model = @ + (IF outcome.ok THEN 0 ELSE 1)]
              /\ call' = CASE r2.pc = "returned" ->
                                  IF next = "tools" THEN [ended EXCEPT !.pc = "tools"]
                                  ELSE Finish(ended)
                           [] r2.pc = "thrown" -> Fail(call, r2.error)
                           [] r2.pc = "sleep" -> call
              /\ checkpoints' = IF r2.pc = "returned"
                                THEN [checkpoints EXCEPT ![call.thread_id] = ended.messages]
                                ELSE checkpoints
    /\ UNCHANGED <<tool, store, llm, http, suspended>>

\* the backoff timer of retryWithBackoff inside callModel fires
ModelBackoff ==
    /\ call.pc = "agent"
    /\ retry.pc = "sleep"
    /\ retry' = RetryOnTimer(retry)
    /\ UNCHANGED <<tool, call, store, llm, faults, checkpoints, http, suspended>>

\* a node is due and the recursion limit is used up: app.invoke throws
RecursionAbort ==
    /\ call.pc \in {"agent", "tools"}
    /\ retry.pc \notin {"loop", "sleep"}
    /\ ~WithinBudget(call.step)
    /\ call' = Fail(call, GraphRecursionError)
    /\ UNCHANGED <<retry, tool, store, llm, faults, checkpoints, http, suspended>>

(***************************************************************************)
(* One call of callAgent, on a thread that is new (t2) or holds an earlier  *)
(* turn (t1), against a model and a store that stay the same during the    *)
(* call.                                                                   *)
(***************************************************************************)
LookupSo == [query |-> StringValue(<<"s", "o">>), n |-> Undefined]
LookupC == [query |-> StringValue(<<"c">>), n |-> NumberValue(1, 1)]

\* the tool calls the model asks for whenever it asks for any: two lookups
\* of the store that has semantic matches, one of the others
AgentToolCalls(st) ==
    IF \E q \in DOMAIN st.matches : st.matches[q] # <<>>
    THEN <<LookupSo, LookupC>>
    ELSE <<LookupSo>>

AgentStores ==
    {[items |-> <<>>, matches |-> [q \in QueriesOf({LookupSo, LookupC}) |-> <<>>],
      strict |-> TRUE, faulty |-> {"count"}],
     [items |-> <<ItemA, ItemB>>,
      matches |-> [q \in QueriesOf({LookupSo, LookupC}) |->
                       IF q = <<"c">> THEN <<>> ELSE <<ItemB, ItemA>>],
      strict |-> TRUE, faulty |-> {"vector"}],
     [items |-> <<ItemC, ItemA>>, matches |-> [q \in QueriesOf({LookupSo, LookupC}) |-> <<>>],
      strict |-> FALSE, faulty |-> {"text"}]}

\* the messages of an earlier turn
EarlierTurn ==
    <<HumanMessage("u0"), AIMessage("", <<LookupSo>>), ToolMessage(EmptyPayload, 1),
      AIMessage("a1", <<>>)>>

Init ==
    /\ retry = RetryIdle
    /\ tool = ToolIdle
    /\ call = CallIdle
    /\ faults = NoFaults
    /\ store \in AgentStores
    /\ llm = [tool_calls |-> AgentToolCalls(store)]
    /\ checkpoints = [t \in Threads |-> IF t = "t1" THEN EarlierTurn ELSE <<>>]
    /\ http = HttpIdle
    /\ suspended = {}

\* the steps of a call in flight
CallStep == ModelStep \/ ModelBackoff \/ ToolStep \/ RecursionAbort

Next == StartCall \/ CallStep

Spec == Init /\ [][Next]_vars

\* a call in flight goes on: the runtime runs every continuation that is
\* ready, and the model, the store and the timers answer
FairSpec == Spec /\ WF_vars(CallStep)

(***************************************************************************)
(* Properties of the agent loop.                                           *)
(***************************************************************************)
InFlight == call.pc \in {"agent", "tools"}
Terminated == call.pc \in {"done", "failed"}

\* the assistant messages of the call in flight that request tool calls
ToolRequests ==
    {k \in 1..Len(call.messages) :
        /\ k > Len(call.messages) - call.step
        /\ call.messages[k].role = "assistant"
        /\ Len(call.messages[k].tool_calls) > 0}

\* C10 as stated: a call of callAgent that is over either
\* reached DONE within 15 state transitions or failed with the
\* budget-exceeded failure.
C10_DoneOrBudgetExceeded ==
    Terminated =>
        \/ call.pc = "done" /\ call.step <= 15
        \/ call.pc = "failed" /\ call.cause = GraphRecursionError

\* C10 amended: every call of callAgent terminates, and never runs more than
\* 15 state transitions: it reaches DONE within 15 transitions, or it fails
\* with the budget-exceeded failure when 15 transitions have run and a node
\* is still due, or it fails with the error a generation step raised.
C10_Terminates ==
    /\ [](call.pc # "idle" => call.step <= 15)
    /\ [](call.pc = "done" =>
              /\ call.step \in 1..15
              /\ ShouldContinue(call.messages) = "__end__")
    /\ [](call.pc = "failed" =>
              \/ /\ call.cause = GraphRecursionError
                 /\ call.step = 15
                 /\ ShouldContinue(call.messages) = "tools"
              \/ /\ retry.pc = "thrown"
                 /\ call.cause = retry.error
                 /\ call.cause = Last(retry.outcomes).error
                 /\ call.step < 15)
    /\ (InFlight ~> Terminated)

C10_Witness ==
    /\ call.pc = "failed"
    /\ call.cause = GraphRecursionError
    /\ call.step = 15
    /\ Cardinality(ToolRequests) = 8

\* the three categories of a failure of callAgent
RateLimitCategory ==
    [message |-> "Service temporarily unavailable due to rate limits. Please try again in a minute."]
AuthCategory ==
    [message |-> "Authentication failed. Please check your API configuration."]
GenericCategory(message) == [message |-> "Agent failed", detail |-> message]

\* the generation step was rate-limited on every attempt the retry bound allows
RetriesExhausted ==
    /\ retry.pc = "thrown"
    /\ Len(retry.outcomes) = DefaultMaxRetries
    /\ \A a \in 1..Len(retry.outcomes) :
           ~retry.outcomes[a].ok /\ StatusIs(retry.outcomes[a].error, RateLimitStatus)

\* C13: a failure of callAgent is of the category the status of the underlying
\* error selects: 429 rate limit, 401 authentication, anything else "Agent
\* failed: <message>"; a generation step still rate-limited when the retries
\* are exhausted fails in the rate-limit category.
C13_FailureCategories ==
    call.pc = "failed" =>
        /\ StatusIs(call.cause, RateLimitStatus) => call.error = RateLimitCategory
        /\ StatusIs(call.cause, AuthStatus) => call.error = AuthCategory
        /\ (~StatusIs(call.cause, RateLimitStatus) /\ ~StatusIs(call.cause, AuthStatus)) =>
               call.error = GenericCategory(call.cause.message)
        /\ RetriesExhausted => call.error = RateLimitCategory
        /\ call.cause = GraphRecursionError =>
               call.error = GenericCategory("Recursion limit reached")

C13_Witness ==
    /\ call.pc = "failed"
    /\ RetriesExhausted
    /\ call.error = RateLimitCategory
    /\ call.step = 2

(***************************************************************************)
(* The HTTP server.  A chat request is pending once its handler has called  *)
(* callAgent and until app.invoke reads the checkpoint of its thread; the   *)
(* calls of callAgent are run one after the other, in any order.  The log   *)
(* holds the chat requests in the order their calls ran, each with the      *)
(* responses sent and, once it is over, how its call of callAgent ended;    *)
(* the product requests are kept apart, each with its response.            *)
(***************************************************************************)
\* Date.now().toString()
TimestampId(now) == ToString(now)

\* the thread identifiers of the server: the timestamps of the clock
ServerThreads == {TimestampId(now) : now \in 0..MaxClock}

Null == [type |-> "null"]

\* the _id of a stored document
ProductId(item) ==
    CASE item = ItemA -> "a1"
      [] item = ItemB -> "b2"
      [] item = ItemC -> "c3"

\* the identifiers a caller asks for: of documents, and of none
RequestedIds == {"a1", "b2", "c3", "zz"}

\* import { MongoClient } from "mongodb": the module has no binding ObjectId
ObjectIdImported == FALSE

\* new ObjectId(productId)
NewObjectId(productId) ==
    IF ObjectIdImported THEN Returned(productId)
    ELSE [ok |-> FALSE,
          error |-> [name |-> "ReferenceError", message |-> "ObjectId is not defined"]]

\* collection.findOne({ _id: id })
FindOne(st, id) ==
    LET found == SelectSeq(st.items, LAMBDA item : ProductId(item) = id) IN
    IF Len(found) = 0 THEN Null ELSE found[1]

\* the handler of GET /products/:id: the response it sends
ProductHandler(st, productId) ==
    LET id == NewObjectId(productId) IN
    IF ~id.ok
    THEN [status |-> ServerErrorStatus, body |-> [error |-> "Failed to fetch product"]]
    ELSE LET product == FindOne(st, id.value) IN
         IF product = Null
         THEN [status |-> 404, body |-> [error |-> "Product not found"]]
         ELSE [status |-> 200, body |-> product]

\* the handlers of POST /chat and POST /chat/:threadId after callAgent: the
\* response they send for the activation c of callAgent
ChatHandlerExposesError(threadId, c) ==
    IF c.pc = "done"
    THEN [status |-> 200, body |-> [threadId |-> threadId, response |-> c.response]]
    ELSE [status |-> ServerErrorStatus, body |-> [error |-> c.error.message]]
ChatHandler(threadId, c) ==
    IF c.pc = "done"
    THEN [status |-> 200, body |-> [threadId |-> threadId, response |-> c.response]]
    ELSE [status |-> ServerErrorStatus, body |-> [error |-> "Internal server error"]]

ChatThreadHandler(c) ==
    IF c.pc = "done"
    THEN [status |-> 200, body |-> [response |-> c.response]]
    ELSE [status |-> ServerErrorStatus, body |-> [error |-> "Internal server error"]]

NumRequests == Len(http.pending) + Len(http.log) + Len(http.products)

ChatRequest(route, threadId, message) ==
    [route |-> route, threadId |-> threadId, message |-> message, responses |-> <<>>]

\* time passes
Tick ==
    /\ http.clock < MaxClock
    /\ http' = [http EXCEPT !.clock = @ + 1]
    /\ UNCHANGED <<retry, tool, call, store, llm, faults, checkpoints, suspended>>

\* POST /chat arrives: the thread identifier is the time of arrival
PostChat ==
    /\ NumRequests < MaxRequests
    /\ \E message \in UserTexts :
           http' = [http EXCEPT !.pending =
                       Append(@, ChatRequest("POST /chat", TimestampId(http.clock), message))]
    /\ UNCHANGED <<retry, tool, call, store, llm, faults, checkpoints, suspended>>

\* POST /chat/:threadId arrives: the thread identifier is the caller's
PostChatThread ==
    /\ NumRequests < MaxRequests
    /\ \E threadId \in ServerThreads, message \in UserTexts :
           http' = [http EXCEPT !.pending =
                       Append(@, ChatRequest("POST /chat/:threadId", threadId, message))]
    /\ UNCHANGED <<retry, tool, call, store, llm, faults, checkpoints, suspended>>

\* GET /products/:id arrives and is answered
GetProduct ==
    /\ NumRequests < MaxRequests
    /\ \E id \in RequestedIds :
           http' = [http EXCEPT !.products =
                       Append(@, [route |-> "GET /products/:id", id |-> id,
                                  responses |-> <<ProductHandler(store, id)>>])]
    /\ UNCHANGED <<retry, tool, call, store, llm, faults, checkpoints, suspended>>

Without(q, i) == SubSeq(q, 1, i - 1) \o SubSeq(q, i + 1, Len(q))

\* the checkpointer saves the messages of a thread
PutCheckpointSkipped(saved, threadId, messages) == saved
PutCheckpoint(saved, threadId, messages) == [saved EXCEPT ![threadId] = messages]

\* app.invoke of a pending request starts: as StartCall, on the thread and
\* with the message of the request; the input is checkpointed
RunRequest ==
    /\ call.pc = "idle"
    /\ \E i \in 1..Len(http.pending) :
           LET r == http.pending[i] IN
           /\ call' = [pc |-> "agent", thread_id |-> r.threadId, step |-> 0,
                       messages |-> Reducer(checkpoints[r.threadId],
                                            <<HumanMessage(r.message)>>)]
           /\ checkpoints' = PutCheckpoint(checkpoints, r.threadId, call'.messages)
           /\ http' = [http EXCEPT !.pending = Without(@, i), !.log = Append(@, r)]
    /\ retry' = RetryIdle
    /\ tool' = ToolIdle
    /\ UNCHANGED <<store, llm, faults, suspended>>

\* how callAgent ended, as its caller sees it (the value returned or the
\* error thrown), with the messages of the graph state at that moment
Ended(c) ==
    IF c.pc = "done"
    THEN [pc |-> c.pc, messages |-> c.messages, response |-> c.response]
    ELSE [pc |-> c.pc, messages |-> c.messages, error |-> c.error]

\* callAgent has returned or thrown: the handler sends its response
Respond ==
    /\ call.pc \in {"done", "failed"}
    /\ LET r == Last(http.log) IN
       http' = [http EXCEPT !.log[Len(http.log)] =
                   [r EXCEPT !.responses =
                        Append(@, IF r.route = "POST /chat"
                                  THEN ChatHandler(r.threadId, call)
                                  ELSE ChatThreadHandler(call))]
                   @@ [ended |-> Ended(call)]]
    /\ call' = CallIdle
    /\ retry' = RetryIdle
    /\ tool' = ToolIdle
    /\ UNCHANGED <<store, llm, faults, checkpoints, suspended>>

\* the store and the model of the server: a store that answers, a model that
\* asks for one lookup whenever it asks for any
ServerStore ==
    [items |-> <<ItemA, ItemB>>,
     matches |-> [q \in QueriesOf({LookupSo}) |-> <<ItemB>>],
     strict |-> TRUE, faulty |-> {}]

ServerInit ==
    /\ retry = RetryIdle
    /\ tool = ToolIdle
    /\ call = CallIdle
    /\ faults = NoFaults
    /\ store = ServerStore
    /\ llm = [tool_calls |-> <<LookupSo>>]
    /\ checkpoints = [t \in ServerThreads |-> <<>>]
    /\ http = HttpIdle
    /\ suspended = {}

ServerNext ==
    Tick \/ PostChat \/ PostChatThread \/ GetProduct \/ RunRequest \/ CallStep \/ Respond

SpecServer == ServerInit /\ [][ServerNext]_vars

(***************************************************************************)
(* Turns that run concurrently.  The handlers are async: while one call of  *)
(* callAgent waits at an await (the model, the store, a timer, the          *)
(* checkpointer), the event loop runs another.  Every call builds its own   *)
(* tools, model, graph and checkpointer; the calls share the client, the    *)
(* collection and the checkpoints, which are kept by thread_id.  call,      *)
(* retry and tool are the activation that runs; suspended holds the others. *)
(* The calls here run on threads no other call uses.                        *)
(***************************************************************************)
\* the activation that runs, as it is kept while it waits
Activation == [call |-> call, retry |-> retry, tool |-> tool]

\* the activations of callAgent: the one that runs and those that wait
Activations == suspended \cup (IF call.pc = "idle" THEN {} ELSE {Activation})

\* the threads the activations run on
ThreadsInUse == {a.call.thread_id : a \in Activations}

\* the checkpoint the graph starts from: the one saved under the thread_id
GetCheckpointLongest(saved, threadId) ==
    saved[CHOOSE t \in DOMAIN saved : \A u \in DOMAIN saved : Len(saved[u]) <= Len(saved[t])]
GetCheckpoint(saved, threadId) == saved[threadId]

\* callAgent is called with a thread_id no other call uses, while the calls
\* made before wait
StartTurn ==
    /\ \E t \in Threads \ ThreadsInUse, text \in UserTexts :
           /\ call' = [pc |-> "agent", thread_id |-> t, step |-> 0,
                       messages |-> Reducer(GetCheckpoint(checkpoints, t),
                                            <<HumanMessage(text)>>)]
           /\ checkpoints' = PutCheckpoint(checkpoints, t, call'.messages)
    /\ retry' = RetryIdle
    /\ tool' = ToolIdle
    /\ suspended' = Activations
    /\ UNCHANGED <<store, llm, faults, http>>

\* the activation that runs waits at an await, or has returned, and the
\* event loop resumes one that waits
Resume ==
    /\ \E a \in suspended :
           /\ a.call.pc \in {"agent", "tools"}
           /\ call' = a.call
           /\ retry' = a.retry
           /\ tool' = a.tool
           /\ suspended' = Activations \ {a}
    /\ UNCHANGED <<store, llm, faults, checkpoints, http>>

\* the history of each thread before the calls
EarlierHistory == [t \in Threads |-> IF t = "t1" THEN EarlierTurn ELSE <<>>]

ConcurrentInit ==
    /\ retry = RetryIdle
    /\ tool = ToolIdle
    /\ call = CallIdle
    /\ faults = NoFaults
    /\ store = ServerStore
    /\ llm = [tool_calls |-> <<LookupSo>>]
    /\ checkpoints = EarlierHistory
    /\ http = HttpIdle
    /\ suspended = {}

ConcurrentNext == StartTurn \/ Resume \/ CallStep

SpecConcurrent == ConcurrentInit /\ [][ConcurrentNext]_vars

(***************************************************************************)
(* Properties of the conversations of the server.                          *)
(***************************************************************************)
IsPrefix(p, q) == Len(p) <= Len(q) /\ SubSeq(q, 1, Len(p)) = p

\* the requests of the log before position i whose calls ran on thread t
EarlierOn(t, i) ==
    {j \in 1..(i - 1) : http.log[j].threadId = t}

\* the retry activation is that of the first generation step of the call
FirstGeneration == call.pc # "idle" /\ retry.pc # "idle" /\ call.step <= 1

\* C12: when a call on a thread returned and the thread is called again, every
\* attempt of the first generation step of the later call is given the
\* messages of the earlier call, in order, then (after the messages of the
\* calls in between, none when it is the next call of the thread) the new
\* user message.
C12_Continuity ==
    FirstGeneration =>
        LET i == Len(http.log)
            r == http.log[i]
        IN
        \A j \in EarlierOn(r.threadId, i) :
            http.log[j].ended.pc = "done" =>
                \A a \in 1..Len(retry.given) :
                    /\ IsPrefix(http.log[j].ended.messages, retry.given[a])
                    /\ Last(retry.given[a]) = HumanMessage(r.message)
                    /\ (\A k \in EarlierOn(r.threadId, i) : k <= j) =>
                           retry.given[a] =
                               http.log[j].ended.messages \o <<HumanMessage(r.message)>>

C12_Witness ==
    /\ FirstGeneration
    /\ Len(http.log) = 2
    /\ EarlierOn(http.log[2].threadId, 2) = {1}
    /\ http.log[1].ended.pc = "done"
    /\ Len(http.log[1].ended.messages) = 4
    /\ Len(retry.given) = 2
    /\ Len(retry.given[2]) = 5

\* the chat requests received so far
ChatRequests == http.log \o http.pending

\* C14 as stated: no two POST /chat requests are given the same thread
\* identifier, and the call of a POST /chat request starts from an empty
\* history.
C14_FreshThreadId ==
    /\ \A i, j \in 1..Len(ChatRequests) :
           (/\ i # j
            /\ ChatRequests[i].route = "POST /chat"
            /\ ChatRequests[j].route = "POST /chat") =>
               ChatRequests[i].threadId # ChatRequests[j].threadId
    /\ (call.pc = "agent" /\ call.step = 0 /\ Last(http.log).route = "POST /chat") =>
           call.messages = <<HumanMessage(Last(http.log).message)>>

InternalServerError ==
    [status |-> 500, body |-> [error |-> "Internal server error"]]

\* C15: a chat request is sent at most one response, and exactly one once its
\* call of callAgent is over: 500 with the same generic body whatever the
\* failure of callAgent, and on success 200 with { threadId, response } on
\* POST /chat and { response } on POST /chat/:threadId.
C15_ChatResponses ==
    /\ \A i \in 1..Len(http.pending) : http.pending[i].responses = <<>>
    /\ \A i \in 1..Len(http.log) :
           LET r == http.log[i] IN
           IF "ended" \notin DOMAIN r
           THEN r.responses = <<>> /\ i = Len(http.log) /\ call.pc # "idle"
           ELSE /\ Len(r.responses) = 1
                /\ r.ended.pc = "failed" => r.responses[1] = InternalServerError
                /\ (r.ended.pc = "done" /\ r.route = "POST /chat") =>
                       r.responses[1] =
                           [status |-> 200,
                            body |-> [threadId |-> r.threadId,
                                      response |-> Last(r.ended.messages).content]]
                /\ (r.ended.pc = "done" /\ r.route = "POST /chat/:threadId") =>
                       r.responses[1] =
                           [status |-> 200,
                            body |-> [response |-> Last(r.ended.messages).content]]

C15_Witness ==
    /\ Len(http.log) = 2
    /\ http.log[1].route = "POST /chat"
    /\ http.log[2].route = "POST /chat/:threadId"
    /\ "ended" \in DOMAIN http.log[2]
    /\ http.log[1].ended.pc = "failed"
    /\ http.log[1].ended.error = RateLimitCategory
    /\ http.log[2].ended.pc = "failed"
    /\ http.log[2].ended.error = GenericCategory("Recursion limit reached")
    /\ http.log[1].responses = http.log[2].responses

\* C16 as stated: GET /products/:id answers with the stored item whose
\* identifier is :id when there is one, and with 404 when there is none.
C16_ProductById ==
    \A i \in 1..Len(http.products) :
        LET r == http.products[i]
            stored == {k \in 1..Len(store.items) : ProductId(store.items[k]) = r.id}
        IN
        /\ Len(r.responses) = 1
        /\ stored # {} =>
               /\ r.responses[1].status = 200
               /\ \E k \in stored : r.responses[1].body = store.items[k]
        /\ stored = {} => r.responses[1].status = 404

\* C17: the persisted messages of a thread only grow at the end: every step
\* leaves the messages persisted before it as a prefix of those persisted
\* after it, and the messages with which an earlier call on the thread ended,
\* returning or throwing, are a prefix of the persisted ones.
C17_AppendOnly ==
    /\ [][\A t \in DOMAIN checkpoints : IsPrefix(checkpoints[t], checkpoints'[t])]_vars
    /\ [](\A i \in 1..Len(http.log) :
              "ended" \in DOMAIN http.log[i] =>
                  IsPrefix(http.log[i].ended.messages, checkpoints[http.log[i].threadId]))

C17_Witness ==
    /\ Len(http.log) = 2
    /\ http.log[1].threadId = http.log[2].threadId
    /\ "ended" \in DOMAIN http.log[2]
    /\ http.log[1].ended.pc = "failed"
    /\ Len(http.log[1].ended.messages) = 3
    /\ http.log[2].ended.pc = "done"
    /\ Len(checkpoints[http.log[1].threadId]) = 7

\* C18: when a call fails, the messages appended before the failure (the
\* user message, the assistant and tool messages of the steps that ended)
\* are the persisted messages of the thread, and every attempt of the first
\* generation step of the next call on the thread is given them, then the
\* new user message.
C18_NoRollback ==
    /\ call.pc = "failed" =>
           /\ checkpoints[call.thread_id] = call.messages
           /\ \E k \in 1..Len(call.messages) :
                  /\ call.messages[k] = HumanMessage(Last(http.log).message)
                  /\ Len(call.messages) - k = call.step
    /\ FirstGeneration =>
           LET i == Len(http.log)
               r == http.log[i]
           IN
           \A j \in EarlierOn(r.threadId, i) :
               (/\ http.log[j].ended.pc = "failed"
                /\ \A k \in EarlierOn(r.threadId, i) : k <= j) =>
                   \A a \in 1..Len(retry.given) :
                       retry.given[a] =
                           http.log[j].ended.messages \o <<HumanMessage(r.message)>>

C18_Witness ==
    /\ FirstGeneration
    /\ Len(http.log) = 2
    /\ http.log[1].threadId = http.log[2].threadId
    /\ http.log[1].ended.pc = "failed"
    /\ http.log[1].ended.error = GenericCategory("Recursion limit reached")
    /\ Len(retry.given) = 1
    /\ Len(retry.given[1]) = 17
    /\ ShouldContinue(SubSeq(retry.given[1], 1, 16)) = "tools"

\* a generation step ends: the agent node has appended the model's response
GenerationEnds == call.pc = "agent" /\ call'.pc # "failed" /\ call'.step = call.step + 1

\* C19: at DONE the last message is an assistant message without tool calls
\* and callAgent returns its content; a generation step that ends leaves for
\* DONE when the response it appended has no tool calls and for the tools
\* step when it has.
C19_DoneOnPlainResponse ==
    /\ [](call.pc = "done" =>
              /\ Last(call.messages).role = "assistant"
              /\ Last(call.messages).tool_calls = <<>>
              /\ call.response = Last(call.messages).content)
    /\ [][GenerationEnds =>
              /\ Last(call'.messages).role = "assistant"
              /\ call'.messages = Append(call.messages, Last(call'.messages))
              /\ call'.pc = "done" <=> Last(call'.messages).tool_calls = <<>>
              /\ call'.pc = "tools" <=> Last(call'.messages).tool_calls # <<>>]_vars

C19_Witness ==
    /\ call.pc = "done"
    /\ call.step = 3
    /\ call.response = "a1"
    /\ call.messages[Len(call.messages) - 3] = AIMessage("", <<LookupSo, LookupC>>)

\* the positions of the messages the call in flight has appended after its
\* user message
AppendedByCall ==
    LET user == CHOOSE k \in 1..Len(call.messages) :
                    /\ call.messages[k].role = "user"
                    /\ \A j \in (k + 1)..Len(call.messages) : call.messages[j].role # "user"
    IN  (user + 1)..Len(call.messages)

\* the state transitions of the call that its messages account for: one for
\* each assistant message, one for each tool request that was answered
TransitionsOfMessages ==
    Cardinality({k \in AppendedByCall : call.messages[k].role = "assistant"})
        + Cardinality({k \in AppendedByCall :
                          /\ call.messages[k].role = "assistant"
                          /\ call.messages[k].tool_calls # <<>>
                          /\ k < Len(call.messages)})

\* C20: while a generation step retries, the messages, the step count and
\* the checkpoints stay as they are; when it returns, every attempt was given
\* the same messages and exactly one assistant message has been appended to
\* them; the step count is that of the messages, whatever the retries.
C20_RetriesAppendOnce ==
    /\ [][(call.pc = "agent" /\ call'.pc = "agent") =>
              call' = call /\ checkpoints' = checkpoints]_vars
    /\ []((retry.pc = "returned" /\ call.pc \in {"tools", "done"}) =>
              /\ \A a \in 1..Len(retry.given) : retry.given[a] = retry.given[1]
              /\ Len(retry.given) = Len(retry.outcomes)
              /\ call.messages = Append(retry.given[1], Last(call.messages))
              /\ Last(call.messages).role = "assistant")
    /\ [](call.pc # "idle" => call.step = TransitionsOfMessages)

C20_Witness ==
    /\ retry.pc = "returned"
    /\ call.pc = "tools"
    /\ call.step = 3
    /\ Len(retry.outcomes) = 3
    /\ ~retry.outcomes[1].ok
    /\ ~retry.outcomes[2].ok
    /\ Len(retry.given) = 3

\* an assistant message that requests tool calls
IsToolRequest(msg) == msg.role = "assistant" /\ Len(msg.tool_calls) > 0

\* how many tool messages follow position k of the messages directly
ToolResultsAfter(messages, k) ==
    CHOOSE c \in 0..(Len(messages) - k) :
        /\ \A j \in 1..c : messages[k + j].role = "tool"
        /\ k + c = Len(messages) \/ messages[k + c + 1].role # "tool"

\* C11 as stated: every assistant message that requests a tool call is
\* followed by exactly one tool message before the next generation step, and
\* the generation step never runs on an unanswered request.
C11_OneToolResult ==
    call.pc # "idle" =>
        /\ \A k \in 1..Len(call.messages) :
               IsToolRequest(call.messages[k]) =>
                   \/ k = Len(call.messages) /\ call.pc = "tools"
                   \/ ToolResultsAfter(call.messages, k) = 1
        /\ call.pc = "agent" => ~IsToolRequest(Last(call.messages))

\* C11 amended: every assistant message that requests tool calls is followed
\* directly by one tool message for each of its tool calls, in their order,
\* and by no other; the request is the last message only while the tools
\* step is due or after the call failed on the recursion limit; the
\* generation step never runs while the last message is such a request.
C11_ToolResultPerToolCall ==
    call.pc # "idle" =>
        /\ \A k \in 1..Len(call.messages) :
               IsToolRequest(call.messages[k]) =>
                   IF k = Len(call.messages)
                   THEN \/ call.pc = "tools"
                        \/ call.pc = "failed" /\ call.cause = GraphRecursionError
                   ELSE /\ ToolResultsAfter(call.messages, k) = Len(call.messages[k].tool_calls)
                        /\ \A j \in 1..Len(call.messages[k].tool_calls) :
                               call.messages[k + j].tool_call = j
        /\ call.pc = "agent" => Last(call.messages).role \in {"user", "tool"}
        /\ call.pc = "tools" => IsToolRequest(Last(call.messages))

C11_Witness ==
    /\ call.pc = "agent"
    /\ call.step = 4
    /\ Len(tool) = 2
    /\ IsToolRequest(call.messages[Len(call.messages) - 2])
    /\ Last(call.messages) = ToolMessage(ToolContent(tool[2]), 2)

(***************************************************************************)
(* Turns on distinct threads.                                              *)
(***************************************************************************)
\* the turn that runs before a step is the one that runs after it
SameTurn == call.pc # "idle" /\ call'.pc # "idle" /\ call'.thread_id = call.thread_id

\* a generation step is under way: inside retryWithBackoff, between attempts
Generating(r) == r.pc \in {"loop", "sleep"}

\* C21: turns on distinct thread identifiers are independent under any
\* interleaving.  Every step of a turn leaves the persisted history of every
\* thread but its own unchanged, and leaves the state of every other turn
\* unchanged; the history of a thread with a turn is the history it held
\* before, then the user message of that turn, then what that turn appended,
\* and it is the turn's own message list; the history of a thread without a
\* turn is the one it held before.  Within one turn one node runs at a time:
\* while the generation step is under way the tool step of that turn does
\* not run, a tool step runs only when it is the node due and no generation
\* is under way, and it leaves the generation step's state alone.
C21_TurnsIndependent ==
    /\ [][/\ call'.pc # "idle" =>
                 /\ \A t \in DOMAIN checkpoints \ {call'.thread_id} :
                        checkpoints'[t] = checkpoints[t]
                 /\ (Activations' \ {Activation'}) \subseteq Activations
          /\ SameTurn =>
                 /\ Generating(retry) =>
                        /\ tool' = tool
                        /\ call'.pc \in {"agent", "tools", "done", "failed"}
                        /\ \A k \in (Len(call.messages) + 1)..Len(call'.messages) :
                               call'.messages[k].role = "assistant"
                 /\ tool' # tool =>
                        /\ call.pc = "tools"
                        /\ ~Generating(retry)
                        /\ retry' = retry
                        /\ \A k \in (Len(call.messages) + 1)..Len(call'.messages) :
                               call'.messages[k].role = "tool"]_vars
    /\ [](/\ \A a \in Activations :
                 /\ checkpoints[a.call.thread_id] = a.call.messages
                 /\ IsPrefix(Reducer(EarlierHistory[a.call.thread_id], <<HumanMessage("u1")>>),
                             a.call.messages)
                 /\ a.call.pc = "tools" => ~Generating(a.retry)
                 /\ Generating(a.retry) => a.call.pc = "agent"
                 /\ \A b \in Activations : b.call.thread_id = a.call.thread_id => b = a
          /\ \A t \in DOMAIN checkpoints \ ThreadsInUse :
                 checkpoints[t] = EarlierHistory[t])

\* a turn on t1 has run its tool step and generates again while a turn on
\* t2, which has requested its tool call, waits
C21_Witness ==
    /\ call.pc = "agent"
    /\ call.thread_id = "t1"
    /\ call.step = 2
    /\ Last(call.messages).role = "tool"
    /\ retry.pc = "sleep"
    /\ \E a \in suspended :
           /\ a.call.thread_id = "t2"
           /\ a.call.pc = "tools"
           /\ IsToolRequest(Last(a.call.messages))
           /\ checkpoints["t2"] = a.call.messages
    /\ checkpoints["t1"] = call.messages

====
